---- MODULE Spec2Model ----
(***************************************************************************)
(* The posts handler of src/lambda/CS351-Project-Posts/index.mjs: one      *)
(* Lambda handler that dispatches on event.httpMethod and reads and writes *)
(* the DynamoDB table "cs351-project-posts" through a DocumentClient.      *)
(*                                                                         *)
(* The state is the table, the last reading taken of the clock, the PUT    *)
(* invocations suspended between their write and their read, the number of *)
(* invocations completed, and the record of the invocation that the latest *)
(* step completed (of none, when that step suspended one).                 *)
(* An invocation whose operation awaits one storage call is one atomic     *)
(* step; handlePut awaits two, so it is two steps and other invocations    *)
(* may run between them.                                                   *)
(***************************************************************************)
EXTENDS Integers, Sequences, FiniteSets, Bags, TLC

VARIABLES table, now, inflight, served, last

vars == <<table, now, inflight, served, last>>

(***************************************************************************)
(* Bounds of the model.                                                    *)
(***************************************************************************)
\* no reading of the clock is earlier than this, in milliseconds
StartTime == 999
\* the clock advances at most this many milliseconds
MaxTicks == 1
\* invocations started in one behaviour
MaxServed == 2

MaxNow == StartTime + MaxTicks

(***************************************************************************)
(* JavaScript and JSON values.  A value carries its type, so that          *)
(* undefined, null, numbers, NaN and strings stay distinct.                *)
(***************************************************************************)
Undefined == [t |-> "undefined"]
JNull == [t |-> "null"]
NaN == [t |-> "NaN"]
Num(n) == [t |-> "num", v |-> n]
Str(s) == [t |-> "str", v |-> s]
Obj(f) == [t |-> "obj", f |-> f]

IsNum(x) == x.t = "num"

\* x ?? d : d when x is undefined or null
Nullish(x, d) == IF x.t \in {"undefined", "null"} THEN d ELSE x

\* obj.name for a parsed JSON value that is not null: undefined unless obj is
\* an object that holds name
Prop(obj, name) ==
  IF obj.t = "obj" /\ name \in DOMAIN obj.f THEN obj.f[name] ELSE Undefined

\* obj.hasOwnProperty(name) for a parsed JSON value that is not null
HasOwn(obj, name) == obj.t = "obj" /\ name \in DOMAIN obj.f

(***************************************************************************)
(* Query parameter values are strings: sequences of characters.            *)
(***************************************************************************)
DigitChars == <<"0", "1", "2", "3", "4", "5", "6", "7", "8", "9">>

IsDigit(c) == \E i \in 1..10 : DigitChars[i] = c

DigitVal(c) == (CHOOSE i \in 1..10 : DigitChars[i] = c) - 1

RECURSIVE DecimalValue(_)
DecimalValue(s) ==
  IF s = <<>> THEN 0
  ELSE 10 * DecimalValue(SubSeq(s, 1, Len(s) - 1)) + DigitVal(s[Len(s)])

AllDigits(s) == Len(s) > 0 /\ \A i \in 1..Len(s) : IsDigit(s[i])

\* Number(s) for a string s: "" is 0, a decimal numeral (with an optional
\* minus sign) is its value, any other text is NaN
Number(s) ==
  IF s = <<>> THEN Num(0)
  ELSE IF AllDigits(s) THEN Num(DecimalValue(s))
  ELSE IF s[1] = "-" /\ AllDigits(Tail(s)) THEN Num(0 - DecimalValue(Tail(s)))
  ELSE NaN

\* the decimal numeral of a natural number, as a client writes an id
RECURSIVE Digits(_)
Digits(n) ==
  IF n < 10 THEN <<DigitChars[n + 1]>>
  ELSE Append(Digits(n \div 10), DigitChars[(n % 10) + 1])

\* a string is truthy when it is not empty
Truthy(s) == Len(s) > 0

\* queryStringParameters && queryStringParameters[name]
HasParam(qs, name) == qs.t = "obj" /\ name \in DOMAIN qs.f /\ Truthy(qs.f[name])

(***************************************************************************)
(* Arrays: sort by timestamp, findIndex, slice.                            *)
(***************************************************************************)
Min(a, b) == IF a < b THEN a ELSE b
Max(a, b) == IF a > b THEN a ELSE b

\* (a, b) => b.timestamp - a.timestamp, a number only when both are numbers
Compare(a, b) ==
  IF IsNum(Prop(a, "timestamp")) /\ IsNum(Prop(b, "timestamp"))
  THEN Num(Prop(b, "timestamp").v - Prop(a, "timestamp").v)
  ELSE NaN

\* every order in which the members of the finite set S can be listed
RECURSIVE Orders(_)
Orders(S) ==
  IF S = {} THEN {<<>>}
  ELSE UNION {{<<a>> \o r : r \in Orders(S \ {a})} : a \in S}

\* the orders of S in which no member precedes one Compare puts before it
RECURSIVE Descending(_)
Descending(S) ==
  IF S = {} THEN {<<>>}
  ELSE UNION {{<<a>> \o r : r \in Descending(S \ {a})} :
                a \in {x \in S : \A y \in S : Compare(x, y).v <= 0}}

\* items.sort(Compare) applied to the result of a scan.  The scan lists the
\* table in no particular order and the sort is stable, so equal timestamps
\* may come out in any order; with a record whose timestamp is no number the
\* comparator is inconsistent and the order is implementation-defined.
SortedScans(S) ==
  IF \A a \in S : IsNum(Prop(a, "timestamp")) THEN Descending(S) ELSE Orders(S)

\* findIndex as if it counted positions from one
FindIndexOneBased(items, target) ==
  LET hits == {i \in 1..Len(items) : target.t = "num" /\ Prop(items[i], "id") = target}
  IN IF hits = {} THEN 0 - 1
     ELSE CHOOSE i \in hits : \A j \in hits : i <= j

\* items.findIndex((item) => item.id === target), zero-based, -1 when none
FindIndex(items, target) ==
  LET hits == {i \in 1..Len(items) : target.t = "num" /\ Prop(items[i], "id") = target}
  IN IF hits = {} THEN 0 - 1
     ELSE (CHOOSE i \in hits : \A j \in hits : i <= j) - 1

\* an index argument of slice: NaN counts as 0, a negative index counts from
\* the end, and the result is clamped to 0..len
RelativeIndex(x, len) ==
  LET k == IF IsNum(x) THEN x.v ELSE 0
  IN IF k < 0 THEN Max(len + k, 0) ELSE Min(k, len)

\* items.slice(start, end)
Slice(items, start, end) ==
  LET from == RelativeIndex(start, Len(items))
      to == RelativeIndex(end, Len(items))
  IN IF from < to THEN SubSeq(items, from + 1, to) ELSE <<>>

\* x + y on numbers, NaN when either is NaN
Plus(x, y) == IF IsNum(x) /\ IsNum(y) THEN Num(x.v + y.v) ELSE NaN

(***************************************************************************)
(* The DocumentClient calls on the table.  A table maps each key to the    *)
(* item stored under it.                                                   *)
(***************************************************************************)
Arr(s) == [t |-> "arr", v |-> s]

\* attribute names DynamoDB reserves: an update expression that names one of
\* them directly is rejected with a ValidationException
ReservedWords == {"timestamp", "ttl"}

\* a key DynamoDB accepts: a number that is not NaN
ValidKey(key) == key.t = "num"

\* dynamo.scan({TableName}).promise(): result.Items, as a set
DynamoScan(t) == {t[k] : k \in DOMAIN t}

\* dynamo.get({TableName, Key: {id: key}}).promise(): result.Item
DynamoGet(t, key) == IF key.v \in DOMAIN t THEN t[key.v] ELSE Undefined

\* dynamo.put({TableName, Item}).promise(): the table afterwards
DynamoPut(t, item) ==
  [k \in DOMAIN t \cup {item.f.id.v} |-> IF k = item.f.id.v THEN item ELSE t[k]]

\* whether DynamoDB accepts an update expression: a clause that names a
\* reserved word directly is a ValidationException
ExpressionAccepted(expr) == \A i \in 1..Len(expr) : expr[i].name \notin ReservedWords

\* the item an update leaves under key: the stored item, or a new item holding
\* only the key when none is stored, with each clause's attribute set to the
\* value of its placeholder
UpdatedItem(t, key, expr, values) ==
  LET old == IF key.v \in DOMAIN t THEN t[key.v].f ELSE [a \in {"id"} |-> key]
      set == {expr[i].name : i \in 1..Len(expr)}
      ph(a) == (CHOOSE i \in 1..Len(expr) : expr[i].name = a)
  IN Obj([a \in DOMAIN old \cup set |->
            IF a \in set THEN values[expr[ph(a)].ph] ELSE old[a]])

\* dynamo.update({TableName, Key, UpdateExpression, ExpressionAttributeValues,
\* ReturnValues: "ALL_NEW"}).promise(): the table afterwards
DynamoUpdate(t, key, expr, values) ==
  [k \in DOMAIN t \cup {key.v} |->
     IF k = key.v THEN UpdatedItem(t, key, expr, values) ELSE t[k]]

\* dynamo.delete({TableName, Key: {id: key}}).promise(): the table afterwards
DynamoDelete(t, key) == [k \in DOMAIN t \ {key.v} |-> t[k]]

(***************************************************************************)
(* Requests, responses and promises.                                       *)
(***************************************************************************)
\* JSON.stringify(v): undefined for undefined, else the JSON text of v
JSONstringify(v) == IF v = Undefined THEN Undefined ELSE [t |-> "json", v |-> v]

\* event.body: null, or a text that is the JSON encoding of v, or a text that
\* is not JSON
JSONText(v) == [t |-> "text", wf |-> TRUE, v |-> v]
Malformed == [t |-> "text", wf |-> FALSE, v |-> Undefined]

\* JSON.parse(body): null is read as the text "null"
JSONparse(body) ==
  IF body = JNull THEN [threw |-> FALSE, v |-> JNull]
  ELSE IF body.wf THEN [threw |-> FALSE, v |-> body.v]
  ELSE [threw |-> TRUE, v |-> Undefined]

\* a template literal `...${arg}...`
Template(text, arg) == [t |-> "template", text |-> text, arg |-> arg]

Response(code, body) == [statusCode |-> code, body |-> body]

\* how a promise settles
Fulfilled(resp) == [kind |-> "fulfilled", resp |-> resp]
Rejected(name) == [kind |-> "rejected", error |-> name]

\* the error object a rejected promise or a thrown exception carries
ErrorObj(name) == Obj([name |-> Str(name)])

Event(method, qs, body) ==
  [httpMethod |-> method, queryStringParameters |-> qs, body |-> body]

\* what an invocation leaves behind for inspection when it completes: its event, how
\* the handler's promise settled, the storage calls it issued, in order, and
\* the readings of Date.now() it took
Completed(ev, out, calls, reads) ==
  [ev |-> ev, out |-> out, calls |-> calls, reads |-> reads]

(***************************************************************************)
(* handler (lines 7-40).                                                   *)
(***************************************************************************)
RecognizedMethods == {"GET", "PUT", "PATCH", "DELETE", "OPTIONS"}

\* The handler's promise, given how the dispatched operation's promise
\* settles.  Each case of the switch is `return handleX(event, context)`: the
\* operation's promise is returned, not awaited, so the handler's promise
\* settles as the operation's does and a rejection is not thrown inside the
\* try block.  The catch block sees only what is thrown while the switch runs:
\* reading event.httpMethod of a null event.
handler(ev, op) ==
  IF ev = JNull
  THEN Fulfilled(Response(512, JSONstringify(ErrorObj("TypeError"))))
  ELSE IF ev.httpMethod \in RecognizedMethods THEN op
  ELSE Fulfilled(Response(400, JSONstringify(Obj(
         [error |-> Template("Unsupported method ${httpMethod}", <<ev.httpMethod>>),
          event |-> ev]))))

(***************************************************************************)
(* handleGet (lines 42-129).                                               *)
(***************************************************************************)
DEFAULT_COUNT == 1

\* the count as if it were read with || : a count of 0 falls back to the default
CountOfTruthy(qs) ==
  IF "count" \in DOMAIN qs.f /\ Number(qs.f["count"]) # Num(0)
  THEN Number(qs.f["count"])
  ELSE Num(DEFAULT_COUNT)

\* Number(queryStringParameters.count ?? DEFAULT_COUNT)
CountOf(qs) ==
  IF "count" \in DOMAIN qs.f THEN Number(qs.f["count"]) ELSE Num(DEFAULT_COUNT)

\* the branches as if before were tested ahead of latest
GetModeBeforeFirst(ev) ==
  LET qs == ev.queryStringParameters
  IN IF HasParam(qs, "before") THEN "before"
     ELSE IF HasParam(qs, "latest") THEN "latest"
     ELSE IF HasParam(qs, "id") THEN "id"
     ELSE "all"

\* the branch of handleGet an event takes
GetMode(ev) ==
  LET qs == ev.queryStringParameters
  IN IF HasParam(qs, "latest") THEN "latest"
     ELSE IF HasParam(qs, "before") THEN "before"
     ELSE IF HasParam(qs, "id") THEN "id"
     ELSE "all"

\* the storage call handleGet awaits, with the branch that issues it
GetCall(ev) ==
  IF GetMode(ev) = "id"
  THEN [op |-> "get", branch |-> "id", key |-> Number(ev.queryStringParameters.f["id"])]
  ELSE [op |-> "scan", branch |-> GetMode(ev)]

\* the response of handleGet once its storage call has succeeded; items is
\* the sorted scan (unused by the single-record fetch)
GetResponse(ev, t, items) ==
  LET qs == ev.queryStringParameters
      mode == GetMode(ev)
  IN IF mode = "latest"
     THEN Response(200, JSONstringify(Arr(Slice(items, Num(0), CountOf(qs)))))
     ELSE IF mode = "before"
     THEN LET idIndex == FindIndex(items, Number(qs.f["before"]))
              startIndex == idIndex + 1
          IN IF idIndex = 0 - 1
             THEN Response(513, JSONstringify(Obj(
                    [error |-> Template("No item found by id ${before}", qs.f["before"])])))
             ELSE Response(200, JSONstringify(Arr(
                    Slice(items, Num(startIndex), Plus(Num(startIndex), CountOf(qs))))))
     ELSE IF mode = "id"
     THEN Response(200, JSONstringify(DynamoGet(t, Number(qs.f["id"]))))
     ELSE Response(200, JSONstringify(Arr(items)))

(***************************************************************************)
(* handlePut (lines 131-162).                                              *)
(***************************************************************************)
RETENTION_PERIOD == 60 * 60 * 24 * 30

\* newPost as if ttl, like the other fields, were taken from the body first
NewPostTtlFromBody(requestJSON, t1, t2, t3) ==
  Obj([id |-> Num(t1),
       content |-> Nullish(Prop(requestJSON, "content"), Str("")),
       timestamp |-> Nullish(Prop(requestJSON, "timestamp"), Num(t2)),
       votes |-> Nullish(Prop(requestJSON, "votes"), Num(0)),
       ttl |-> Nullish(Prop(requestJSON, "ttl"), Num((t3 \div 1000) + RETENTION_PERIOD))])

\* newPost, from the parsed body and the three readings of Date.now()
NewPost(requestJSON, t1, t2, t3) ==
  Obj([id |-> Num(t1),
       content |-> Nullish(Prop(requestJSON, "content"), Str("")),
       timestamp |-> Nullish(Prop(requestJSON, "timestamp"), Num(t2)),
       votes |-> Nullish(Prop(requestJSON, "votes"), Num(0)),
       ttl |-> Num((t3 \div 1000) + RETENTION_PERIOD)])

\* handlePut up to its first await: the promise if it is already rejected
\* (pending otherwise), the calls issued and the table afterwards
handlePutWrite(ev, t, t1, t2, t3, fails) ==
  LET parsed == JSONparse(ev.body)
      requestJSON == parsed.v
      newPost == NewPost(requestJSON, t1, t2, t3)
      call == [op |-> "put", item |-> newPost]
  IN IF parsed.threw
     THEN [out |-> Rejected("SyntaxError"), calls |-> <<>>, table |-> t]
     ELSE IF requestJSON = JNull
     THEN [out |-> Rejected("TypeError"), calls |-> <<>>, table |-> t]
     ELSE IF fails
     THEN [out |-> Rejected("StorageError"), calls |-> <<call>>, table |-> t]
     ELSE [out |-> [kind |-> "pending"], calls |-> <<call>>, table |-> DynamoPut(t, newPost)]

\* handlePut as if it answered with newPost as built, the read ignored
handlePutReadLocal(inv, t, fails) ==
  LET key == inv.calls[1].item.f.id
      call == [op |-> "get", key |-> key]
  IN IF fails
     THEN [out |-> Rejected("StorageError"), calls |-> Append(inv.calls, call)]
     ELSE [out |-> Fulfilled(Response(200, JSONstringify(inv.calls[1].item))),
           calls |-> Append(inv.calls, call)]

\* handlePut from its first await on: the read of the key just written
handlePutRead(inv, t, fails) ==
  LET key == inv.calls[1].item.f.id
      call == [op |-> "get", key |-> key]
  IN IF fails
     THEN [out |-> Rejected("StorageError"), calls |-> Append(inv.calls, call)]
     ELSE [out |-> Fulfilled(Response(200, JSONstringify(DynamoGet(t, key)))),
           calls |-> Append(inv.calls, call)]

(***************************************************************************)
(* handlePatch (lines 164-230).                                            *)
(***************************************************************************)
\* the clauses of the update expression, in the order the code appends them
PatchClauses ==
  <<[name |-> "content", ph |-> ":c"], [name |-> "timestamp", ph |-> ":t"],
    [name |-> "votes", ph |-> ":v"], [name |-> "ttl", ph |-> ":ttl"]>>

\* updateExpression after the four hasOwnProperty tests: the clauses of the
\* fields the body holds; empty is the bare "set"
UpdateExpression(requestJSON) ==
  SelectSeq(PatchClauses, LAMBDA c : HasOwn(requestJSON, c.name))

\* attributeValues after the four hasOwnProperty tests: each placeholder
\* bound to the body's value of its field
AttributeValues(requestJSON) ==
  LET expr == UpdateExpression(requestJSON)
      clause(p) == expr[CHOOSE i \in 1..Len(expr) : expr[i].ph = p]
  IN [p \in {expr[i].ph : i \in 1..Len(expr)} |-> requestJSON.f[clause(p).name]]

\* handlePatch as if the test for an empty update came after the update
handlePatchTestsAfter(ev, t, fails) ==
  LET qs == ev.queryStringParameters
      parsed == JSONparse(ev.body)
      requestJSON == parsed.v
      expr == UpdateExpression(requestJSON)
      key == Number(qs.f["id"])
      call == [op |-> "update", key |-> key, expr |-> expr,
               values |-> AttributeValues(requestJSON)]
  IN IF ~HasParam(qs, "id")
     THEN [out |-> Fulfilled(Response(400, JSONstringify(Obj([error |-> Str("Missing post ID")])))),
           calls |-> <<>>, table |-> t]
     ELSE IF parsed.threw
     THEN [out |-> Rejected("SyntaxError"), calls |-> <<>>, table |-> t]
     ELSE IF requestJSON = JNull
     THEN [out |-> Rejected("TypeError"), calls |-> <<>>, table |-> t]
     ELSE IF ~ValidKey(key) \/ ~ExpressionAccepted(expr)
     THEN [out |-> Rejected("ValidationException"), calls |-> <<call>>, table |-> t]
     ELSE IF fails
     THEN [out |-> Rejected("StorageError"), calls |-> <<call>>, table |-> t]
     ELSE IF expr = <<>>
     THEN [out |-> Fulfilled(Response(400, JSONstringify(Obj([error |-> Str("No fields to update")])))),
           calls |-> <<call>>,
           table |-> DynamoUpdate(t, key, expr, call.values)]
     ELSE [out |-> Fulfilled(Response(200,
                     JSONstringify(UpdatedItem(t, key, expr, call.values)))),
           calls |-> <<call>>,
           table |-> DynamoUpdate(t, key, expr, call.values)]

\* what handlePatch does with the table: its promise, the calls it issued and
\* the table afterwards; fails says whether the storage call fails in transit
handlePatch(ev, t, fails) ==
  LET qs == ev.queryStringParameters
      parsed == JSONparse(ev.body)
      requestJSON == parsed.v
      expr == UpdateExpression(requestJSON)
      key == Number(qs.f["id"])
      call == [op |-> "update", key |-> key, expr |-> expr,
               values |-> AttributeValues(requestJSON)]
  IN IF ~HasParam(qs, "id")
     THEN [out |-> Fulfilled(Response(400, JSONstringify(Obj([error |-> Str("Missing post ID")])))),
           calls |-> <<>>, table |-> t]
     ELSE IF parsed.threw
     THEN [out |-> Rejected("SyntaxError"), calls |-> <<>>, table |-> t]
     ELSE IF requestJSON = JNull
     THEN [out |-> Rejected("TypeError"), calls |-> <<>>, table |-> t]
     ELSE IF expr = <<>>
     THEN [out |-> Fulfilled(Response(400, JSONstringify(Obj([error |-> Str("No fields to update")])))),
           calls |-> <<>>, table |-> t]
     ELSE IF ~ValidKey(key) \/ ~ExpressionAccepted(expr)
     THEN [out |-> Rejected("ValidationException"), calls |-> <<call>>, table |-> t]
     ELSE IF fails
     THEN [out |-> Rejected("StorageError"), calls |-> <<call>>, table |-> t]
     ELSE [out |-> Fulfilled(Response(200,
                     JSONstringify(UpdatedItem(t, key, expr, call.values)))),
           calls |-> <<call>>,
           table |-> DynamoUpdate(t, key, expr, call.values)]

(***************************************************************************)
(* handleDelete (lines 232-255).                                           *)
(***************************************************************************)
\* handleDelete as if it looked the record up and answered 404 without one
handleDeleteChecked(ev, t, fails) ==
  LET qs == ev.queryStringParameters
      key == Number(qs.f["id"])
      call == [op |-> "delete", key |-> key]
  IN IF ~HasParam(qs, "id")
     THEN [out |-> Fulfilled(Response(400, JSONstringify(Obj([error |-> Str("Missing post ID")])))),
           calls |-> <<>>, table |-> t]
     ELSE IF ~ValidKey(key)
     THEN [out |-> Rejected("ValidationException"), calls |-> <<call>>, table |-> t]
     ELSE IF fails
     THEN [out |-> Rejected("StorageError"), calls |-> <<call>>, table |-> t]
     ELSE IF key.v \notin DOMAIN t
     THEN [out |-> Fulfilled(Response(404, JSONstringify(Obj([success |-> FALSE])))),
           calls |-> <<call>>, table |-> t]
     ELSE [out |-> Fulfilled(Response(200, JSONstringify(Obj([success |-> TRUE])))),
           calls |-> <<call>>,
           table |-> DynamoDelete(t, key)]

handleDelete(ev, t, fails) ==
  LET qs == ev.queryStringParameters
      key == Number(qs.f["id"])
      call == [op |-> "delete", key |-> key]
  IN IF ~HasParam(qs, "id")
     THEN [out |-> Fulfilled(Response(400, JSONstringify(Obj([error |-> Str("Missing post ID")])))),
           calls |-> <<>>, table |-> t]
     ELSE IF ~ValidKey(key)
     THEN [out |-> Rejected("ValidationException"), calls |-> <<call>>, table |-> t]
     ELSE IF fails
     THEN [out |-> Rejected("StorageError"), calls |-> <<call>>, table |-> t]
     ELSE [out |-> Fulfilled(Response(200, JSONstringify(Obj([success |-> TRUE])))),
           calls |-> <<call>>,
           table |-> DynamoDelete(t, key)]

(***************************************************************************)
(* handleOptions (lines 257-268).                                          *)
(***************************************************************************)
handleOptions(ev) ==
  Fulfilled([statusCode |-> 200,
             headers |-> [AccessControlAllowOrigin |-> "*",
                          AccessControlAllowMethods |-> "GET,PUT,PATCH,DELETE,OPTIONS"],
             body |-> JSONstringify(Obj([success |-> TRUE]))])

(***************************************************************************)
(* The events the platform delivers.                                       *)
(***************************************************************************)
\* marks a query parameter the request does not carry
Absent == <<"absent">>

ParamNames == {"latest", "before", "id", "count"}

\* queryStringParameters: null when the request carries no parameter
QueryString(latest, before, id, count) ==
  LET given == [latest |-> latest, before |-> before, id |-> id, count |-> count]
      present == {n \in ParamNames : given[n] # Absent}
  IN IF present = {} THEN JNull ELSE Obj([n \in present |-> given[n]])

\* the ids of the posts the table may hold when the handler is deployed
SeedIds == <<100, 200, 300>>

\* ids a client may name: empty, not a number, one no PUT assigns, one of a
\* post stored at deployment
IdStrings == {<<>>, <<"x">>, <<"7">>, Digits(SeedIds[2])}

CountStrings == {Absent, <<"0">>, <<"2">>, <<"-", "2">>, <<"x">>}

\* GET events: every combination of absence, emptiness and value of the
\* three mode parameters; the before mode over anchors and counts; the latest
\* mode over counts
GetEvents ==
  {Event("GET", QueryString(l, b, i, Absent), JNull) :
     l \in {Absent, <<>>, <<"0">>}, b \in {Absent, <<>>, Digits(SeedIds[2])},
     i \in {Absent, <<>>, Digits(SeedIds[2])}}
  \cup
  {Event("GET", QueryString(Absent, b, Absent, c), JNull) :
     b \in {Digits(SeedIds[2]), Digits(SeedIds[3])}, c \in CountStrings}
  \cup
  {Event("GET", QueryString(Absent, b, Absent, Absent), JNull) : b \in {<<"x">>, <<"7">>}}
  \cup
  {Event("GET", QueryString(<<"1">>, Absent, Absent, c), JNull) : c \in CountStrings}
  \cup
  {Event("GET", QueryString(Absent, Absent, <<"x">>, Absent), JNull)}

PutBodies ==
  {JNull, Malformed, JSONText(JNull),
   JSONText(Obj(<<>>)),
   JSONText(Obj([content |-> Str("a"), timestamp |-> Num(1000), votes |-> JNull,
                 ttl |-> Num(0)]))}

PutEvents == {Event("PUT", JNull, b) : b \in PutBodies}

PatchBodies ==
  {JNull, Malformed, JSONText(Num(5)),
   JSONText(Obj(<<>>)),
   JSONText(Obj([votes |-> Num(0)])),
   JSONText(Obj([timestamp |-> Num(5)])),
   JSONText(Obj([votes |-> Num(0), ttl |-> Num(0)]))}

PatchEvents ==
  {Event("PATCH", QueryString(Absent, Absent, i, Absent), b) :
     i \in IdStrings \cup {Absent}, b \in PatchBodies}

DeleteEvents ==
  {Event("DELETE", QueryString(Absent, Absent, i, Absent), JNull) :
     i \in IdStrings \cup {Absent, Digits(StartTime)}}

OptionsEvents ==
  {Event("OPTIONS", QueryString(Absent, Absent, i, Absent), b) :
     i \in {Absent, <<"7">>}, b \in {JNull, Malformed}}

UnsupportedEvents == {Event(m, JNull, JNull) : m \in {"POST", "HEAD"}}

(***************************************************************************)
(* The state machine.                                                      *)
(***************************************************************************)
NoInvocation == Completed(JNull, [kind |-> "none"], <<>>, <<>>)

\* the posts of a table that earlier PUTs filled: one per seed id, the second
\* with a timestamp of its own
SeedTable ==
  [k \in {SeedIds[j] : j \in 1..3} |->
     NewPost(IF k = SeedIds[2]
             THEN Obj([content |-> Str("a"), timestamp |-> Num(1000), votes |-> Num(3)])
             ELSE Obj(<<>>), k, k, k)]

\* at deployment the table is empty or holds the posts of earlier PUTs
Init ==
  /\ table \in {<<>>, SeedTable}
  /\ now = StartTime
  /\ inflight = EmptyBag
  /\ served = 0
  /\ last = NoInvocation

\* a GET invocation, whole: one scan or one get, then the response
Get(ev, fails) ==
  /\ served + BagCardinality(inflight) < MaxServed
  /\ served' = served + 1
  /\ LET call == GetCall(ev)
     IN IF (call.op = "get" /\ ~ValidKey(call.key)) \/ fails
        THEN last' = Completed(ev,
                       handler(ev, Rejected(IF fails THEN "StorageError"
                                            ELSE "ValidationException")),
                       <<call>>, <<>>)
        ELSE \E items \in SortedScans(DynamoScan(table)) :
               last' = Completed(ev, handler(ev, Fulfilled(GetResponse(ev, table, items))),
                                 <<call>>, <<>>)
  /\ UNCHANGED <<table, now, inflight>>

\* a PUT invocation up to its first await: parse, build newPost from three
\* readings of the clock, write it.  The clock has advanced d0 milliseconds
\* since it was last read, and advances d1 and d2 between the readings.
PutWrite(ev, d0, d1, d2, fails) ==
  /\ served + BagCardinality(inflight) < MaxServed
  /\ now + d0 + d1 + d2 <= MaxNow
  /\ LET reads == <<now + d0, now + d0 + d1, now + d0 + d1 + d2>>
         r == handlePutWrite(ev, table, reads[1], reads[2], reads[3], fails)
     IN /\ table' = r.table
        /\ IF r.out.kind = "pending"
           THEN /\ inflight' = inflight (+) SetToBag({[ev |-> ev, calls |-> r.calls, reads |-> reads]})
                /\ now' = reads[3]
                /\ served' = served
                /\ last' = NoInvocation
           ELSE /\ inflight' = inflight
                /\ served' = served + 1
                /\ now' = IF r.calls = <<>> THEN now ELSE reads[3]
                /\ last' = Completed(ev, handler(ev, r.out), r.calls,
                                     IF r.calls = <<>> THEN <<>> ELSE reads)

\* a suspended PUT invocation resumes: read the key back, respond
PutRead(inv, fails) ==
  /\ BagIn(inv, inflight)
  /\ LET r == handlePutRead(inv, table, fails)
     IN last' = Completed(inv.ev, handler(inv.ev, r.out), r.calls, inv.reads)
  /\ inflight' = inflight (-) SetToBag({inv})
  /\ served' = served + 1
  /\ UNCHANGED <<table, now>>

\* a PATCH invocation, whole
Patch(ev, fails) ==
  /\ served + BagCardinality(inflight) < MaxServed
  /\ served' = served + 1
  /\ LET r == handlePatch(ev, table, fails)
     IN /\ table' = r.table
        /\ last' = Completed(ev, handler(ev, r.out), r.calls, <<>>)
  /\ UNCHANGED <<now, inflight>>

\* a DELETE invocation, whole
Delete(ev, fails) ==
  /\ served + BagCardinality(inflight) < MaxServed
  /\ served' = served + 1
  /\ LET r == handleDelete(ev, table, fails)
     IN /\ table' = r.table
        /\ last' = Completed(ev, handler(ev, r.out), r.calls, <<>>)
  /\ UNCHANGED <<now, inflight>>

\* an OPTIONS invocation
Options(ev) ==
  /\ served + BagCardinality(inflight) < MaxServed
  /\ served' = served + 1
  /\ last' = Completed(ev, handler(ev, handleOptions(ev)), <<>>, <<>>)
  /\ UNCHANGED <<table, now, inflight>>

\* an invocation with a method the switch does not name, or with no event
Unsupported(ev) ==
  /\ served + BagCardinality(inflight) < MaxServed
  /\ served' = served + 1
  /\ last' = Completed(ev, handler(ev, Undefined), <<>>, <<>>)
  /\ UNCHANGED <<table, now, inflight>>

Next ==
  \/ \E ev \in GetEvents, fails \in BOOLEAN : Get(ev, fails)
  \/ \E ev \in PutEvents, d0 \in 0..1, d1 \in 0..1, d2 \in 0..1, fails \in BOOLEAN :
       PutWrite(ev, d0, d1, d2, fails)
  \/ \E inv \in BagToSet(inflight), fails \in BOOLEAN : PutRead(inv, fails)
  \/ \E ev \in PatchEvents, fails \in BOOLEAN : Patch(ev, fails)
  \/ \E ev \in DeleteEvents, fails \in BOOLEAN : Delete(ev, fails)
  \/ \E ev \in OptionsEvents : Options(ev)
  \/ \E ev \in UnsupportedEvents \cup {JNull} : Unsupported(ev)

Spec == Init /\ [][Next]_vars

(***************************************************************************)
(* Vocabulary of the properties.                                           *)
(***************************************************************************)
\* the latest step completed an invocation of this method
LastIs(method) ==
  last.out.kind # "none" /\ last.ev # JNull /\ last.ev.httpMethod = method

\* this step completes an invocation of this method
Completes(method) ==
  /\ served' = served + 1
  /\ last'.ev # JNull
  /\ last'.ev.httpMethod = method

\* the invocation that completes in this step answered with this status
Answers(code) == last'.out.kind = "fulfilled" /\ last'.out.resp.statusCode = code

LastAnswered(code) == last.out.kind = "fulfilled" /\ last.out.resp.statusCode = code

\* the query parameter is part of the request, whatever its value
Present(ev, name) ==
  ev.queryStringParameters # JNull /\ name \in DOMAIN ev.queryStringParameters.f

\* the query parameter is part of the request with a value that is not empty
Given(ev, name) == Present(ev, name) /\ ev.queryStringParameters.f[name] # <<>>

Param(ev, name) == ev.queryStringParameters.f[name]

PostFields == {"id", "content", "timestamp", "votes", "ttl"}
MutableFields == {"content", "timestamp", "votes", "ttl"}

\* the storage calls that change the table
Mutating == {"put", "update", "delete"}

\* the timestamps of the table are numbers, no two equal
DistinctTimestamps(t) ==
  /\ \A k \in DOMAIN t : "timestamp" \in DOMAIN t[k].f /\ t[k].f.timestamp.t = "num"
  /\ \A j, k \in DOMAIN t : j # k => t[j].f.timestamp.v # t[k].f.timestamp.v

\* the records of such a table, most recent first
ByTimestamp(t) ==
  [i \in 1..Cardinality(DOMAIN t) |->
     t[CHOOSE k \in DOMAIN t :
         Cardinality({j \in DOMAIN t : t[j].f.timestamp.v > t[k].f.timestamp.v}) = i - 1]]

\* count is omitted, or a numeral that is not negative; the number it stands for
CountGiven(ev) ==
  \/ ~Present(ev, "count")
  \/ Number(Param(ev, "count")).t = "num" /\ Number(Param(ev, "count")).v >= 0

CountValue(ev) == IF Present(ev, "count") THEN Number(Param(ev, "count")).v ELSE 1

\* the records a response carries
Records(resp) == resp.body.v.v

\* this step completes an invocation, of whatever method
CompletesAny == served' = served + 1

(***************************************************************************)
(* C1.                                                                     *)
(***************************************************************************)
\* C1: an invocation with a recognized method never ends as a failed
\* invocation: whatever its operation raises, the handler's promise is
\* fulfilled (with the 512 response of the catch block).
C1_NoErrorEscapes ==
  (last.out.kind # "none" /\ last.ev # JNull /\ last.ev.httpMethod \in RecognizedMethods)
    => last.out.kind = "fulfilled"

(***************************************************************************)
(* C4.                                                                     *)
(***************************************************************************)
\* C4: an invocation answered with status 400 issues no put, update or delete
\* and its step leaves the table as it was.
C4_BadRequestWritesNothing ==
  [][(CompletesAny /\ Answers(400))
       => /\ table' = table
          /\ \A i \in 1..Len(last'.calls) : last'.calls[i].op \notin Mutating]_vars

\* a PATCH that names an id and lists no field was answered 400
C4_Witness ==
  /\ LastIs("PATCH")
  /\ LastAnswered(400)
  /\ Given(last.ev, "id")
  /\ table # <<>>

(***************************************************************************)
(* C5.                                                                     *)
(***************************************************************************)
\* the positions of the record with id B in the order, B a Number() result
PositionsOf(order, B) ==
  {i \in 1..Len(order) : B.t = "num" /\ order[i].f.id.v = B.v}

\* C5: on a table of distinct timestamps, GET in the before mode with anchor B
\* and count N (1 when omitted) answers 200 with the records at positions
\* i+1 .. i+N of the timestamp-descending order, i the position of B, cut at
\* the end of the order; with no record of id B it answers 513 with no records.
C5_BeforeWindow ==
  [][(/\ Completes("GET")
      /\ last'.out.kind = "fulfilled"
      /\ ~Given(last'.ev, "latest")
      /\ Given(last'.ev, "before")
      /\ CountGiven(last'.ev)
      /\ DistinctTimestamps(table))
       => LET order == ByTimestamp(table)
              hits == PositionsOf(order, Number(Param(last'.ev, "before")))
              N == CountValue(last'.ev)
          IN IF hits # {}
             THEN LET i == CHOOSE i \in hits : TRUE
                  IN /\ Answers(200)
                     /\ Records(last'.out.resp) = SubSeq(order, i + 1, Min(i + N, Len(order)))
             ELSE /\ Answers(513)
                  /\ last'.out.resp.body.v.t = "obj"]_vars

\* on a table of three posts a before-mode GET returned the two records after
\* its anchor, and not the anchor
C5_Witness ==
  /\ LastIs("GET")
  /\ LastAnswered(200)
  /\ ~Given(last.ev, "latest")
  /\ Given(last.ev, "before")
  /\ Present(last.ev, "count")
  /\ Cardinality(DOMAIN table) >= 3
  /\ DistinctTimestamps(table)
  /\ Len(Records(last.out.resp)) = 2
  /\ \A i \in 1..2 :
       Records(last.out.resp)[i].f.id # Number(Param(last.ev, "before"))

(***************************************************************************)
(* C6.                                                                     *)
(***************************************************************************)
\* a GET in the latest mode completes, its scan having succeeded, on a table
\* of distinct timestamps
LatestStep ==
  /\ Completes("GET")
  /\ last'.out.kind = "fulfilled"
  /\ Given(last'.ev, "latest")
  /\ DistinctTimestamps(table)

\* the response carries the first min(N, size) records of the order
ReturnsTop ==
  /\ Answers(200)
  /\ Records(last'.out.resp) =
       SubSeq(ByTimestamp(table), 1, Min(CountValue(last'.ev), Cardinality(DOMAIN table)))

\* count is omitted or a numeral, negative or not
NumericCount(ev) == ~Present(ev, "count") \/ Number(Param(ev, "count")).t = "num"

\* C6 as stated: for every count value N that is a number, the latest mode
\* returns the first min(N, size) records of the timestamp-descending order
\* (none when N is negative).
C6_Original == [][(LatestStep /\ NumericCount(last'.ev)) => ReturnsTop]_vars

\* C6 amended: for every count value N that is not negative, the latest mode
\* answers 200 with the first min(N, size) records of the timestamp-descending
\* order; with count omitted, with the single most recent record.
C6_LatestTopN == [][(LatestStep /\ CountGiven(last'.ev)) => ReturnsTop]_vars

\* a latest-mode GET with count=2 returned two of three posts
C6_Witness ==
  /\ LastIs("GET")
  /\ LastAnswered(200)
  /\ Given(last.ev, "latest")
  /\ Present(last.ev, "count")
  /\ Cardinality(DOMAIN table) >= 3
  /\ DistinctTimestamps(table)
  /\ Len(Records(last.out.resp)) = 2

(***************************************************************************)
(* C9.                                                                     *)
(***************************************************************************)
\* the branch of handleGet the last GET ran
BranchRun == last.calls[1].branch

\* C9 as stated: the mode is chosen by which parameter is present, whatever
\* its value, in the order latest, before, id, none.
C9_Original ==
  LastIs("GET")
    => BranchRun = IF Present(last.ev, "latest") THEN "latest"
                   ELSE IF Present(last.ev, "before") THEN "before"
                   ELSE IF Present(last.ev, "id") THEN "id"
                   ELSE "all"

\* C9 amended: the mode is chosen by which parameter is present with a value
\* that is not empty, in the order latest, before, id, none.
C9_ModePrecedence ==
  LastIs("GET")
    => BranchRun = IF Given(last.ev, "latest") THEN "latest"
                   ELSE IF Given(last.ev, "before") THEN "before"
                   ELSE IF Given(last.ev, "id") THEN "id"
                   ELSE "all"

\* a GET that carried latest with an empty value, and before and id with
\* values, ran the before mode
C9_Witness ==
  /\ LastIs("GET")
  /\ Present(last.ev, "latest")
  /\ Given(last.ev, "before")
  /\ Given(last.ev, "id")
  /\ BranchRun = "before"

(***************************************************************************)
(* C2.                                                                     *)
(***************************************************************************)
\* the names of the storage calls the last invocation issued, in order
LastOps == [i \in 1..Len(last.calls) |-> last.calls[i].op]

\* the last invocation ended on a storage call that failed in transit
LastStorageFailed == last.out.kind = "rejected" /\ last.out.error = "StorageError"

\* the body holds the field, whatever its value
Holds(b, name) == b.t = "obj" /\ name \in DOMAIN b.f

\* the body holds the field with a value that is not null
HoldsValue(b, name) == Holds(b, name) /\ b.f[name] # JNull

\* C2 as stated: every PUT whose body JSON.parse accepts (and whose storage
\* calls do not fail in transit) is answered 200 after exactly one put and one
\* get, and the record put has id = the creation instant, content, timestamp
\* and votes = the body's values when the body holds them, else "", the
\* creation instant and 0, and ttl = the creation instant in seconds + 2592000.
C2_Original ==
  (LastIs("PUT") /\ last.ev.body # JNull /\ last.ev.body.wf /\ ~LastStorageFailed)
    => /\ LastAnswered(200)
       /\ LastOps = <<"put", "get">>
       /\ LET item == last.calls[1].item.f
              b == JSONparse(last.ev.body).v
              instant == last.reads[1]
          IN /\ item.id = Num(instant)
             /\ item.content = IF Holds(b, "content") THEN b.f.content ELSE Str("")
             /\ item.timestamp = IF Holds(b, "timestamp") THEN b.f.timestamp ELSE Num(instant)
             /\ item.votes = IF Holds(b, "votes") THEN b.f.votes ELSE Num(0)
             /\ item.ttl = Num((instant \div 1000) + 2592000)

\* C2 amended: every PUT whose body parses to a JSON value other than null
\* builds a record of exactly the five fields from three successive readings
\* t1 <= t2 <= t3 of the clock: id = t1 (never the body's), content, timestamp
\* and votes = the body's values when the body holds them with a value other
\* than null, else "", t2 and 0, and ttl = floor(t3 / 1000) + 2592000 whatever
\* the body says; it issues one put of that record, then one get, and answers
\* 200, unless one of the two calls fails, which ends it there.
C2_PutRecord ==
  (LastIs("PUT") /\ last.ev.body # JNull /\ last.ev.body.wf /\ last.ev.body.v # JNull)
    => /\ Len(last.calls) >= 1
       /\ last.calls[1].op = "put"
       /\ LET item == last.calls[1].item.f
              b == last.ev.body.v
              r == last.reads
          IN /\ r[1] <= r[2] /\ r[2] <= r[3]
             /\ DOMAIN item = PostFields
             /\ item.id = Num(r[1])
             /\ item.content = IF HoldsValue(b, "content") THEN b.f.content ELSE Str("")
             /\ item.timestamp = IF HoldsValue(b, "timestamp") THEN b.f.timestamp ELSE Num(r[2])
             /\ item.votes = IF HoldsValue(b, "votes") THEN b.f.votes ELSE Num(0)
             /\ item.ttl = Num((r[3] \div 1000) + 2592000)
       /\ last.out.kind = "fulfilled" => (LastAnswered(200) /\ LastOps = <<"put", "get">>)
       /\ last.out.kind = "rejected" => (LastStorageFailed /\ Len(last.calls) <= 2)

\* a PUT with the body {} completed while the clock ticked between its
\* readings: its timestamp is later than its id, its ttl is of the next second
C2_Witness ==
  /\ LastIs("PUT")
  /\ LastAnswered(200)
  /\ last.ev.body = JSONText(Obj(<<>>))
  /\ last.reads[1] < last.reads[2]
  /\ last.calls[1].item.f.timestamp # last.calls[1].item.f.id
  /\ last.reads[3] \div 1000 > last.reads[1] \div 1000

(***************************************************************************)
(* C3.                                                                     *)
(***************************************************************************)
\* C3: a PATCH that names an existing record X and whose body holds some of
\* content, timestamp, votes, ttl (its update not failing in transit) issues
\* exactly one update, after which every field the body holds has the body's
\* value, every other field of X and every other record is unchanged, and the
\* answer is 200 with the updated record.
C3_PatchUpdatesListed ==
  [][(/\ Completes("PATCH")
      /\ Given(last'.ev, "id")
      /\ Number(Param(last'.ev, "id")).t = "num"
      /\ Number(Param(last'.ev, "id")).v \in DOMAIN table
      /\ last'.ev.body # JNull
      /\ last'.ev.body.wf
      /\ last'.ev.body.v.t = "obj"
      /\ DOMAIN last'.ev.body.v.f \cap MutableFields # {}
      /\ ~(last'.out.kind = "rejected" /\ last'.out.error = "StorageError"))
       => LET X == Number(Param(last'.ev, "id")).v
              b == last'.ev.body.v.f
          IN /\ Answers(200)
             /\ Len(last'.calls) = 1
             /\ last'.calls[1].op = "update"
             /\ DOMAIN table' = DOMAIN table
             /\ \A k \in DOMAIN table \ {X} : table'[k] = table[k]
             /\ DOMAIN table'[X].f = DOMAIN table[X].f \cup (DOMAIN b \cap MutableFields)
             /\ \A a \in DOMAIN table'[X].f :
                  table'[X].f[a] = IF a \in DOMAIN b \cap MutableFields THEN b[a]
                                   ELSE table[X].f[a]
             /\ last'.out.resp.body = [t |-> "json", v |-> table'[X]]]_vars

(***************************************************************************)
(* C7.                                                                     *)
(***************************************************************************)
\* C7: a DELETE that names an id (its delete not failing) is answered 200
\* with {success: true}, the same whether or not a record of that id exists;
\* afterwards no record has that id and every other record is as before, so a
\* second DELETE of the same id changes nothing.
C7_DeleteIdempotent ==
  [][(/\ Completes("DELETE")
      /\ Given(last'.ev, "id")
      /\ Number(Param(last'.ev, "id")).t = "num"
      /\ last'.out.kind = "fulfilled")
       => LET X == Number(Param(last'.ev, "id")).v
          IN /\ last'.out.resp =
                  [statusCode |-> 200, body |-> [t |-> "json", v |-> Obj([success |-> TRUE])]]
             /\ DOMAIN table' = DOMAIN table \ {X}
             /\ \A k \in DOMAIN table' : table'[k] = table[k]
             /\ X \notin DOMAIN table => table' = table]_vars

\* a DELETE of one of three stored posts was answered 200 and the two others
\* are still stored
C7_Witness ==
  /\ LastIs("DELETE")
  /\ LastAnswered(200)
  /\ Param(last.ev, "id") = Digits(SeedIds[2])
  /\ DOMAIN table = {SeedIds[1], SeedIds[3]}

(***************************************************************************)
(* C8.                                                                     *)
(***************************************************************************)
\* C8: every record of the table holds all five fields, and an id enters the
\* table only in the write of a PUT.
C8_OnlyPutCreates ==
  /\ [](\A k \in DOMAIN table : DOMAIN table[k].f = PostFields)
  /\ [][(DOMAIN table' \subseteq DOMAIN table)
          \/ BagCardinality(inflight') = BagCardinality(inflight) + 1]_vars

(***************************************************************************)
(* C10.                                                                    *)
(***************************************************************************)
\* C10 as stated: every PUT that completes returns the record it built and
\* wrote, whatever other invocations did in between.
C10_Original ==
  (LastIs("PUT") /\ last.out.kind = "fulfilled")
    => last.out.resp.body = [t |-> "json", v |-> last.calls[1].item]

\* C10 amended: every PUT that completes returns what is stored under its id
\* when its read runs: the record it wrote if that is still the one stored,
\* else what the put, update or delete of another invocation left there,
\* nothing included.
C10_ReturnsStored ==
  [][(Completes("PUT") /\ last'.out.kind = "fulfilled")
       => LET id == last'.calls[1].item.f.id.v
          IN /\ id \in DOMAIN table
                  => last'.out.resp.body = [t |-> "json", v |-> table[id]]
             /\ id \notin DOMAIN table => last'.out.resp.body = Undefined]_vars

\* a PUT completed with a body other than the record it wrote
C10_Witness ==
  /\ LastIs("PUT")
  /\ LastAnswered(200)
  /\ last.out.resp.body # [t |-> "json", v |-> last.calls[1].item]

====
